---- MODULE Spec2Model ----
(***************************************************************************)
(* A model of the Prophetic calendar demo: the simulated clock             *)
(* (timeline_simulator.py), the question generator and response            *)
(* normaliser (llm_module.py), the memoised issue checker (web_scraper.py) *)
(* and the alert workflow of the page script (app.py).                     *)
(*                                                                         *)
(* A datetime is a natural number of ticks since midnight of day 0; a day  *)
(* has TicksPerDay ticks, so a datetime carries a day and a time of day.   *)
(***************************************************************************)
EXTENDS Integers, Sequences, FiniteSets, TLC

VARIABLES
    now,              \* the wall clock, datetime.now()
    demo_mode,        \* TimelineSimulator.demo_mode
    simulated_date,   \* TimelineSimulator.simulated_date
    events,           \* st.session_state.events
    alerts_checked,   \* st.session_state.alerts_checked
    permission,       \* st.session_state.permission_calendar
    event_details,    \* st.session_state.event_details
    issues_cache,     \* st.session_state.issues_cache
    api_key,          \* st.session_state.api_key, the text of the API Key field
    displayed,        \* what the last run showed inside each alert of the Alerts tab
    shown,            \* what the last run of the page script surfaced in the Alerts tab
    reviewed,         \* history: the (event identity, days_before) pairs marked as reviewed
    everShown,        \* history: every (event, days_before) alert surfaced so far
    jumped,           \* history: the "+7 Days" control has been used
    alertLog,         \* history: (clock date, offset, event) of every poll that returned the event
    scraper,          \* the WebScraper instance: use_mock and _cache
    served,           \* history: per cache key, how often the external service was invoked
    firstRet,         \* history: per cache key, the first list check_for_issues returned
    firstBy,          \* history: per cache key, the name of the event of that first call
    failed,           \* history: the cache keys for which a call to the external service failed
    call,             \* the last operation applied and its arguments
    ret               \* what that operation returned

vars == <<now, demo_mode, simulated_date, events, alerts_checked, permission,
          event_details, issues_cache, api_key, displayed, shown, reviewed, everShown, jumped, alertLog, scraper, served, firstRet, firstBy, failed, call, ret>>

-----------------------------------------------------------------------------
(* Bounds of the model *)

TicksPerDay == 2
MaxDay == 1
MaxEvents == 2
MaxLen == 4
MaxServiceCalls == 2
AppMaxDay == 9

-----------------------------------------------------------------------------
(* datetime arithmetic *)

\* dt.replace(hour=0, minute=0, second=0, microsecond=0)
Midnight(dt) == dt - (dt % TicksPerDay)

\* dt + timedelta(days=n)
AddDays(dt, n) == dt + n * TicksPerDay

\* (a - b).days : timedelta normalises to a floored day count
DeltaDays(a, b) == (a - b) \div TicksPerDay

NoCall == [op |-> "none"]

ReadOps == {"get_upcoming_events", "get_events_needing_alert", "days_until_event",
            "parse_response", "generate_questions", "check_for_issues",
            "parse_calendar_file"}

\* no call is in progress: the caller has taken the last result
Idle == call.op \notin ReadOps

-----------------------------------------------------------------------------
(* TimelineSimulator *)

\* datetime.now().replace(hour=0, minute=0, second=0, microsecond=0)
Today == Midnight(now)

get_current_date == IF demo_mode THEN simulated_date ELSE Today

Mut_set_demo_mode(flag) ==
    /\ demo_mode' = flag
    /\ simulated_date' = Today
\* set_demo_mode(flag): the new (demo_mode, simulated_date)
set_demo_mode(flag) ==
    /\ demo_mode' = flag
    /\ simulated_date' = IF ~flag THEN Today ELSE simulated_date

Mut_advance_days_any_mode(days) == simulated_date' = AddDays(simulated_date, days)
Mut_advance_days(days) ==
    simulated_date' = IF demo_mode THEN AddDays(simulated_date, days + 1) ELSE simulated_date
advance_days(days) ==
    simulated_date' = IF demo_mode THEN AddDays(simulated_date, days) ELSE simulated_date

set_date(date) ==
    simulated_date' = IF demo_mode THEN Midnight(date) ELSE simulated_date

Mut_reset == simulated_date' = IF demo_mode THEN Today ELSE simulated_date

reset == simulated_date' = Today

\* sorted(seq, key=lambda x: x['start']) : a stable insertion sort
RECURSIVE InsertByStart(_, _)
InsertByStart(e, s) ==
    IF s = <<>> THEN <<e>>
    ELSE IF e.start < Head(s).start THEN <<e>> \o s
    ELSE <<Head(s)>> \o InsertByStart(e, Tail(s))

RECURSIVE SortedByStart(_)
SortedByStart(s) ==
    IF s = <<>> THEN <<>>
    ELSE InsertByStart(s[Len(s)], SortedByStart(SubSeq(s, 1, Len(s) - 1)))

UpcomingFilter(evs, current_date, end_date) ==
    SelectSeq(evs, LAMBDA e : e.start >= current_date /\ e.start <= end_date)

Mut_get_upcoming_events(evs, days_ahead) ==
    UpcomingFilter(evs, get_current_date, AddDays(get_current_date, days_ahead))
get_upcoming_events(evs, days_ahead) ==
    SortedByStart(UpcomingFilter(evs, get_current_date, AddDays(get_current_date, days_ahead)))

Mut_get_events_needing_alert(evs, days_before) ==
    SelectSeq(evs, LAMBDA e : e.start = AddDays(get_current_date, days_before))
get_events_needing_alert(evs, days_before) ==
    SelectSeq(evs, LAMBDA e : Midnight(e.start) = AddDays(get_current_date, days_before))

Mut_days_until_event(event) == DeltaDays(get_current_date, Midnight(event.start))
days_until_event(event) == DeltaDays(Midnight(event.start), get_current_date)

-----------------------------------------------------------------------------
(* Inputs of the clock and scheduler operations *)

Ticks == 0 .. ((MaxDay + 1) * TicksPerDay - 1)
Offsets == (0 - 1) .. MaxDay
TimelineEvents == [name : {"X"}, start : Ticks]
SeqsUpTo(S, n) == UNION {[1 .. k -> S] : k \in 0 .. n}
EventLists == SeqsUpTo(TimelineEvents, MaxEvents)

Range(s) == {s[i] : i \in DOMAIN s}

NoScraper == [use_mock |-> TRUE, cache |-> <<>>]
NoShown == [date |-> 0, alerts |-> {}]

\* ENV_API_KEY = os.getenv("GOOGLE_API_KEY"): the environment holds no key (None)
ENV_API_KEY == "<None>"

\* the session state a specification of the clock alone leaves untouched
AppIdle ==
    /\ events = <<>>
    /\ alerts_checked = {}
    /\ permission = FALSE
    /\ event_details = <<>>
    /\ issues_cache = <<>>
    /\ api_key = ENV_API_KEY
    /\ displayed = <<>>
    /\ shown = NoShown
    /\ reviewed = {}
    /\ everShown = {}
    /\ jumped = FALSE
    /\ alertLog = {}

ScraperIdle ==
    /\ scraper = NoScraper
    /\ served = <<>>
    /\ firstRet = <<>>
    /\ firstBy = <<>>
    /\ failed = {}

appVars == <<events, alerts_checked, permission, event_details, issues_cache, api_key,
            displayed, shown, reviewed, everShown, jumped, alertLog>>
scraperVars == <<scraper, served, firstRet, firstBy, failed>>
clockVars == <<now, demo_mode, simulated_date>>

-----------------------------------------------------------------------------
(* The clock and the scheduler's read operations on their own *)

\* TimelineSimulator.__init__(demo_mode)
InitTimeline ==
    /\ now \in 0 .. (TicksPerDay - 1)
    /\ demo_mode \in BOOLEAN
    /\ simulated_date = Today
    /\ AppIdle
    /\ ScraperIdle
    /\ call = NoCall
    /\ ret = NoCall

\* the wall clock moves on
Tick ==
    /\ now < TicksPerDay
    /\ now' = now + 1
    /\ UNCHANGED <<demo_mode, simulated_date>>

TL_Tick ==
    /\ Idle
    /\ Tick
    /\ call' = NoCall /\ ret' = NoCall
    /\ UNCHANGED <<appVars, scraperVars>>

TL_SetDemoMode ==
    /\ Idle
    /\ \E flag \in BOOLEAN :
            /\ set_demo_mode(flag)
            /\ call' = [op |-> "set_demo_mode", flag |-> flag,
                        before |-> simulated_date, today |-> Today]
            /\ ret' = NoCall
            /\ UNCHANGED <<now, appVars, scraperVars>>

TL_AdvanceDays ==
    /\ Idle
    /\ \E n \in {0 - 1, 1, 2} :
            /\ AddDays(simulated_date, n) \in 0 .. (MaxDay * TicksPerDay)
            /\ advance_days(n)
            /\ call' = [op |-> "advance_days", days |-> n, before |-> simulated_date,
                        current |-> get_current_date]
            /\ ret' = NoCall
            /\ UNCHANGED <<now, demo_mode, appVars, scraperVars>>

TL_SetDate ==
    /\ Idle
    /\ \E d \in Ticks :
            /\ set_date(d)
            /\ call' = [op |-> "set_date", date |-> d]
            /\ ret' = NoCall
            /\ UNCHANGED <<now, demo_mode, appVars, scraperVars>>

TL_Reset ==
    /\ Idle
    /\ reset
    /\ call' = [op |-> "reset", today |-> Today]
    /\ ret' = NoCall
    /\ UNCHANGED <<now, demo_mode, appVars, scraperVars>>

TL_GetUpcomingEvents ==
    /\ Idle
    /\ \E evs \in EventLists, days_ahead \in 0 .. MaxDay :
            /\ call' = [op |-> "get_upcoming_events", events |-> evs, days_ahead |-> days_ahead]
            /\ ret' = get_upcoming_events(evs, days_ahead)
            /\ UNCHANGED <<clockVars, appVars, scraperVars>>

TL_GetEventsNeedingAlert ==
    /\ Idle
    /\ \E evs \in EventLists, days_before \in Offsets :
            /\ call' = [op |-> "get_events_needing_alert", events |-> evs,
                        days_before |-> days_before]
            /\ ret' = get_events_needing_alert(evs, days_before)
            /\ UNCHANGED <<clockVars, appVars, scraperVars>>

TL_DaysUntilEvent ==
    /\ Idle
    /\ \E e \in TimelineEvents :
            /\ call' = [op |-> "days_until_event", event |-> e]
            /\ ret' = days_until_event(e)
            /\ UNCHANGED <<clockVars, appVars, scraperVars>>

\* the caller takes the result of a read
TL_Return ==
    /\ ~Idle
    /\ call' = NoCall /\ ret' = NoCall
    /\ UNCHANGED <<clockVars, appVars, scraperVars>>

NextTimeline ==
    \/ TL_Return
    \/ TL_Tick
    \/ TL_SetDemoMode
    \/ TL_AdvanceDays
    \/ TL_SetDate
    \/ TL_Reset
    \/ TL_GetUpcomingEvents
    \/ TL_GetEventsNeedingAlert
    \/ TL_DaysUntilEvent

SpecTimeline == InitTimeline /\ [][NextTimeline]_vars

\* the clock date T of the claims, and the day number of a datetime
T == get_current_date
DayOf(dt) == dt \div TicksPerDay

\* C1: get_events_needing_alert(events, D) returns an event if and only if its
\* start, truncated to midnight, is the clock date plus D days: whatever its time
\* of day, and never an event of the day before or after.
C1_AlertIffOnTargetDay ==
    call.op = "get_events_needing_alert" =>
        /\ \A i \in DOMAIN call.events :
              (call.events[i] \in Range(ret))
                  <=> (DayOf(call.events[i].start) = DayOf(T) + call.days_before)
        /\ Range(ret) \subseteq Range(call.events)

\* C1 witness: one call returned an event with a non-zero time of day and left out
\* an event of the following day.
C1_Witness ==
    /\ call.op = "get_events_needing_alert"
    /\ \E e \in Range(ret) : e.start % TicksPerDay # 0
    /\ \E e \in Range(call.events) :
          /\ e \notin Range(ret)
          /\ DayOf(e.start) = DayOf(T) + call.days_before + 1

IsSortedByStart(s) == \A i, j \in DOMAIN s : i < j => s[i].start <= s[j].start
CountIn(s, e) == Cardinality({i \in DOMAIN s : s[i] = e})

\* C7: get_upcoming_events(events, days_ahead) is the list, in ascending order of
\* start, of exactly the events with T <= start <= T + days_ahead (both inclusive).
C7_UpcomingWindowSorted ==
    call.op = "get_upcoming_events" =>
        /\ IsSortedByStart(ret)
        /\ \A e \in Range(call.events) \cup Range(ret) :
              CountIn(ret, e) =
                  IF T <= e.start /\ e.start <= T + call.days_ahead * TicksPerDay
                  THEN CountIn(call.events, e) ELSE 0

\* C7 witness: an unsorted input with both events inside the window (one exactly on
\* the upper bound) and the result listing both.
C7_Witness ==
    /\ call.op = "get_upcoming_events"
    /\ Len(call.events) >= 2
    /\ call.events[1].start > call.events[2].start
    /\ call.events[1].start = T + call.days_ahead * TicksPerDay
    /\ Len(ret) = 2

\* C8: days_until_event(E) is the whole-day difference between E.start truncated
\* to midnight and T, and is negative for every event that starts before T.
C8_DaysUntilIsDayDifference ==
    call.op = "days_until_event" =>
        /\ ret = DayOf(call.event.start) - DayOf(T)
        /\ (call.event.start < T => ret < 0)

\* C8 witness: an event in the past (negative count) was measured.
C8_Witness ==
    /\ call.op = "days_until_event"
    /\ call.event.start < T
    /\ call.event.start % TicksPerDay # 0
    /\ ret < 0

\* C13: advance_days(n) in demo mode moves the stored date to the old date plus n
\* days and changes nothing else; with demo mode off it leaves the stored date, the
\* demo flag and the value of get_current_date() unchanged, for every n.
C13_AdvanceDaysFrame ==
    [][call'.op = "advance_days" =>
          /\ IF demo_mode
             THEN simulated_date' = AddDays(simulated_date, call'.days)
             ELSE simulated_date' = simulated_date /\ get_current_date' = get_current_date
          /\ demo_mode' = demo_mode
          /\ UNCHANGED <<now, appVars, scraperVars>>]_vars

\* C13 witness: advance_days was called with demo mode off on a clock whose
\* stored date is not today's.
C13_Witness ==
    /\ call.op = "advance_days"
    /\ ~demo_mode
    /\ call.days # 0
    /\ simulated_date = call.before
    /\ simulated_date # Today

\* C14: set_demo_mode(False) sets the stored date to the real current date;
\* set_demo_mode(True) leaves the stored date unchanged, and get_current_date()
\* right after it returns the date stored before the toggle.
C14_ToggleOffSnapsToggleOnKeeps ==
    call.op = "set_demo_mode" =>
        IF call.flag
        THEN simulated_date = call.before /\ get_current_date = call.before
        ELSE simulated_date = call.today

\* C14 witness: demo mode was switched on over a stored date that is not the real
\* current date, and the clock shows the stored date.
C14_Witness ==
    /\ call.op = "set_demo_mode"
    /\ call.flag
    /\ call.before # call.today
    /\ get_current_date = call.before

-----------------------------------------------------------------------------
(* The clock advanced one day at a time, every trigger offset polled at each date *)

\* what get_events_needing_alert returns at the current clock date, per offset
Polled ==
    UNION {{[date |-> get_current_date, offset |-> D, event |-> e] :
               e \in Range(get_events_needing_alert(events, D))} : D \in Offsets}

InitFiresOnce ==
    /\ now \in 0 .. (TicksPerDay - 1)
    /\ demo_mode = TRUE
    /\ simulated_date = Today
    /\ events \in EventLists
    /\ alerts_checked = {}
    /\ permission = FALSE
    /\ event_details = <<>>
    /\ issues_cache = <<>>
    /\ api_key = ENV_API_KEY
    /\ displayed = <<>>
    /\ shown = NoShown
    /\ reviewed = {}
    /\ everShown = {}
    /\ jumped = FALSE
    /\ alertLog = Polled
    /\ ScraperIdle
    /\ call = NoCall
    /\ ret = NoCall

FO_AdvanceOneDay ==
    /\ DayOf(simulated_date) <= MaxDay
    /\ advance_days(1)
    /\ UNCHANGED <<now, demo_mode, events, alerts_checked, permission, event_details,
                   issues_cache, api_key, displayed, shown, reviewed, everShown, jumped,
                   scraperVars, call, ret>>
    /\ alertLog' = alertLog \cup Polled'

NextFiresOnce == FO_AdvanceOneDay

SpecFiresOnce == InitFiresOnce /\ [][NextFiresOnce]_vars

\* the clock dates at which the poll for offset D returned event e
FiredDates(e, D) == {r.date : r \in {x \in alertLog : x.offset = D /\ x.event = e}}

\* C6: in demo mode with the clock moved only by advance_days(1), an event whose
\* start day is at least T0 + D is returned by get_events_needing_alert(events, D)
\* at no more than one clock date, and at exactly one once the clock has reached
\* the trigger date.
C6_FiresExactlyOnce ==
    \A e \in Range(events), D \in Offsets :
        DayOf(e.start) >= DayOf(Today) + D =>
            /\ Cardinality(FiredDates(e, D)) <= 1
            /\ DayOf(T) >= DayOf(e.start) - D => FiredDates(e, D) = {AddDays(Midnight(e.start), 0 - D)}

\* C6 witness: the clock has run past the trigger date of an event with a time of
\* day, which it reached by advancing, and the poll returned it there.
C6_Witness ==
    \E e \in Range(events) :
        /\ e.start % TicksPerDay # 0
        /\ DayOf(e.start) > DayOf(Today)
        /\ DayOf(T) > DayOf(e.start)
        /\ FiredDates(e, 0) = {Midnight(e.start)}

-----------------------------------------------------------------------------
(* LLMModule: generate_questions and parse_response *)

\* A str is a sequence of one-character strings.
Digits09 == {"0", "1", "2", "3", "4", "5", "6", "7", "8", "9"}
Digits01 == {"0", "1"}
Digits03 == {"0", "1", "2", "3"}
Digits05 == {"0", "1", "2", "3", "4", "5"}
Whitespace == {" "}

RECURSIVE lstrip(_)
lstrip(s) == IF s # <<>> /\ Head(s) \in Whitespace THEN lstrip(Tail(s)) ELSE s

RECURSIVE rstrip(_)
rstrip(s) ==
    IF s # <<>> /\ s[Len(s)] \in Whitespace THEN rstrip(SubSeq(s, 1, Len(s) - 1)) ELSE s

\* str.strip()
strip(s) == rstrip(lstrip(s))

\* re.match(r'^([0-1]?[0-9]|2[0-3]):[0-5][0-9]$', response)
MatchesTimePattern(r) ==
    \/ /\ Len(r) = 4
       /\ r[1] \in Digits09
       /\ r[2] = ":"
       /\ r[3] \in Digits05
       /\ r[4] \in Digits09
    \/ /\ Len(r) = 5
       /\ \/ r[1] \in Digits01 /\ r[2] \in Digits09
          \/ r[1] = "2" /\ r[2] \in Digits03
       /\ r[3] = ":"
       /\ r[4] \in Digits05
       /\ r[5] \in Digits09

TimeFields == {"arrival_time", "departure_time"}

Returned(v) == [raised |-> FALSE, value |-> v]
Raised(e) == [raised |-> TRUE, value |-> e]

Mut_FixCommonFormats(response) ==
    IF ":" \notin Range(response) /\ Len(response) \in {3, 4}
    THEN IF Len(response) = 3
         THEN Returned(<<"0", response[1], ":">> \o SubSeq(response, 2, 3))
         ELSE Returned(SubSeq(response, 1, 2) \o <<":">> \o SubSeq(response, 3, 4))
    ELSE Raised("ValueError")
\* the branch taken when the pattern does not match
FixCommonFormats(response) ==
    IF ":" \notin Range(response) /\ Len(response) \in {3, 4}
    THEN IF Len(response) = 3
         THEN Returned(<<response[1], ":">> \o SubSeq(response, 2, 3))
         ELSE Returned(SubSeq(response, 1, 2) \o <<":">> \o SubSeq(response, 3, 4))
    ELSE Raised("ValueError")

parse_response(response, question_type) ==
    LET r == strip(response)
    IN  IF question_type \in TimeFields
        THEN IF ~MatchesTimePattern(r) THEN FixCommonFormats(r) ELSE Returned(r)
        ELSE Returned(r)

\* A dict is a function from the keys it holds; None is Python's None.
None == "<None>"
Get(d, k) == IF k \in DOMAIN d THEN d[k] ELSE None
Falsy(v) == v \in {None, ""}

Question(field, event) == [field |-> field, about |-> event["name"]]

Mut_generate_questions(event) ==
    (IF "location" \notin DOMAIN event THEN <<Question("location", event)>> ELSE <<>>)
    \o (IF "arrival_time" \notin DOMAIN event
        THEN <<Question("arrival_time", event)>> ELSE <<>>)
    \o (IF "departure_time" \notin DOMAIN event
        THEN <<Question("departure_time", event)>> ELSE <<>>)
\* the questions dict, as the list of its items in insertion order
generate_questions(event) ==
    (IF Falsy(Get(event, "location")) \/ event["location"] = ""
     THEN <<Question("location", event)>> ELSE <<>>)
    \o (IF Falsy(Get(event, "arrival_time"))
        THEN <<Question("arrival_time", event)>> ELSE <<>>)
    \o (IF Falsy(Get(event, "departure_time"))
        THEN <<Question("departure_time", event)>> ELSE <<>>)

-----------------------------------------------------------------------------
(* Inputs of the LLMModule operations *)

Chars == {"0", "2", "3", "9", ":", "a", " "}
Examples == {<<"a", "b", "c">>, <<"1", "4", "3", "0">>, <<"2", "3", ":", "3", "0">>,
             <<" ", "9", "3", "0", " ">>, <<"0", "9", ":", "3", "0">>}
Responses == SeqsUpTo(Chars, MaxLen) \cup Examples
QuestionTypes == {"location", "arrival_time", "departure_time"}

DetailKeys == {"location", "arrival_time", "departure_time", "transport_mode"}
FieldValues == {None, "", "v"}
Mappings ==
    UNION {{m @@ [k \in {"name"} |-> "X"] : m \in [K -> FieldValues]} : K \in SUBSET DetailKeys}

InitLLM ==
    /\ now = 0
    /\ demo_mode = TRUE
    /\ simulated_date = 0
    /\ AppIdle
    /\ ScraperIdle
    /\ call = NoCall
    /\ ret = NoCall

LLM_ParseResponse ==
    /\ Idle
    /\ \E response \in Responses, question_type \in QuestionTypes :
            /\ call' = [op |-> "parse_response", response |-> response,
                        question_type |-> question_type]
            /\ ret' = parse_response(response, question_type)
            /\ UNCHANGED <<clockVars, appVars, scraperVars>>

LLM_GenerateQuestions ==
    /\ Idle
    /\ \E event \in Mappings :
            /\ call' = [op |-> "generate_questions", event |-> event]
            /\ ret' = generate_questions(event)
            /\ UNCHANGED <<clockVars, appVars, scraperVars>>

LLM_Return ==
    /\ ~Idle
    /\ call' = NoCall /\ ret' = NoCall
    /\ UNCHANGED <<clockVars, appVars, scraperVars>>

NextLLM ==
    \/ LLM_ParseResponse
    \/ LLM_GenerateQuestions
    \/ LLM_Return

SpecLLM == InitLLM /\ [][NextLLM]_vars

\* the claims' own reading of a time of day: H:MM or HH:MM, hour 0-23, minute 0-59
DigitValue(c) ==
    CASE c = "0" -> 0 [] c = "1" -> 1 [] c = "2" -> 2 [] c = "3" -> 3 [] c = "4" -> 4
      [] c = "5" -> 5 [] c = "6" -> 6 [] c = "7" -> 7 [] c = "8" -> 8 [] c = "9" -> 9

AllDigits(s) == \A i \in DOMAIN s : s[i] \in Digits09

RECURSIVE NumberOf(_)
NumberOf(s) == IF s = <<>> THEN 0 ELSE 10 * NumberOf(SubSeq(s, 1, Len(s) - 1)) + DigitValue(s[Len(s)])

IsClockTime(s) ==
    \E h \in 1 .. 2 :
        /\ Len(s) = h + 3
        /\ s[h + 1] = ":"
        /\ AllDigits(SubSeq(s, 1, h)) /\ AllDigits(SubSeq(s, h + 2, h + 3))
        /\ NumberOf(SubSeq(s, 1, h)) <= 23
        /\ NumberOf(SubSeq(s, h + 2, h + 3)) <= 59

\* the repair as the claims state it: 3 or 4 digits and no colon
ColonRepair(s) ==
    IF AllDigits(s) /\ Len(s) \in {3, 4}
    THEN SubSeq(s, 1, Len(s) - 2) \o <<":">> \o SubSeq(s, Len(s) - 1, Len(s))
    ELSE s

\* C3: for a time field parse_response returns a value only if the trimmed input,
\* after the 3-or-4-digit colon repair, is HH:MM with hour 0-23 and minute 0-59;
\* every other input (such as "abc") fails with the validation error.
C3_InvalidTimeRaises ==
    (call.op = "parse_response" /\ call.question_type \in TimeFields) =>
        (~IsClockTime(ColonRepair(strip(call.response))) => ret.raised)

\* C18: for a time field parse_response does not zero-pad: a trimmed input that
\* is a valid H:MM or HH:MM is returned as it is, three digits d1d2d3 give
\* d1:d2d3 and four digits d1d2d3d4 give d1d2:d3d4.
C18_NoZeroPadding ==
    (call.op = "parse_response" /\ call.question_type \in TimeFields) =>
        LET t == strip(call.response)
        IN  /\ IsClockTime(t) => ret = Returned(t)
            /\ (AllDigits(t) /\ Len(t) = 3) => ret = Returned(<<t[1], ":", t[2], t[3]>>)
            /\ (AllDigits(t) /\ Len(t) = 4) =>
                  ret = Returned(<<t[1], t[2], ":", t[3], t[4]>>)

\* C18 witness: " 930 " was parsed as an arrival time and gave "9:30".
C18_Witness ==
    /\ call.op = "parse_response"
    /\ call.question_type = "arrival_time"
    /\ call.response = <<" ", "9", "3", "0", " ">>
    /\ ret = Returned(<<"9", ":", "3", "0">>)

\* C9: generate_questions returns, in the order location, arrival_time,
\* departure_time, exactly the fields that are absent or falsy in the mapping.
C9_QuestionsAreMissingFields ==
    call.op = "generate_questions" =>
        [i \in DOMAIN ret |-> ret[i].field]
            = SelectSeq(<<"location", "arrival_time", "departure_time">>,
                        LAMBDA k : k \notin DOMAIN call.event \/ call.event[k] \in {None, ""})

\* C25: whenever transport_mode is absent or falsy in the mapping,
\* generate_questions reports transport_mode as a missing field.
C25_TransportModeIsAsked ==
    (call.op = "generate_questions" /\ Falsy(Get(call.event, "transport_mode"))) =>
        \E i \in DOMAIN ret : ret[i].field = "transport_mode"

\* C9 witness: a mapping with a location, an empty arrival_time and no
\* departure_time got the two time questions, in order.
C9_Witness ==
    /\ call.op = "generate_questions"
    /\ "location" \in DOMAIN call.event /\ call.event["location"] = "v"
    /\ "arrival_time" \in DOMAIN call.event /\ call.event["arrival_time"] = ""
    /\ "departure_time" \notin DOMAIN call.event
    /\ Len(ret) = 2 /\ ret[1].field = "arrival_time" /\ ret[2].field = "departure_time"

-----------------------------------------------------------------------------
(* WebScraper *)

\* str.lower() on the field values and on the characters the inputs hold
LowerStr(v) == CASE v = "Car" -> "car" [] OTHER -> v
LowerChar(c) ==
    CASE c = "N" -> "n" [] c = "H" -> "h" [] c = "R" -> "r" [] c = "T" -> "t"
      [] c = "S" -> "s" [] c = "P" -> "p" [] c = "O" -> "o" [] OTHER -> c
LowerText(t) == [i \in DOMAIN t |-> LowerChar(t[i])]

\* event.get('start') is a datetime (always truthy) or missing
HasStart(event) == "start" \in DOMAIN event

\* the date key 'N/A' of an event without a start
DateKeyNA == 0 - 1

\* f"{location}|{date_key}|{transport}|{arrival}|{departure}", as its five parts
cache_key(event) ==
    <<IF Falsy(Get(event, "location")) THEN "" ELSE event["location"],
      IF HasStart(event) THEN DayOf(event["start"]) ELSE DateKeyNA,
      LowerStr(IF Falsy(Get(event, "transport_mode")) THEN "na" ELSE event["transport_mode"]),
      IF Falsy(Get(event, "arrival_time")) THEN "na" ELSE event["arrival_time"],
      IF Falsy(Get(event, "departure_time")) THEN "na" ELSE event["departure_time"]>>

\* datetime.weekday(): day 0 of the model is a Monday
Weekday(dt) == DayOf(dt) % 7

Issue(type, severity, message) == [type |-> type, severity |-> severity, message |-> message]

\* draws.x is the outcome of the comparison random.random() > threshold
check_weather_mock(event, draws) ==
    IF DeltaDays(event["start"], now) <= 7 /\ draws.weather
    THEN <<Issue("weather", "warning", <<"Rain expected", DayOf(event["start"])>>)>>
    ELSE <<>>

check_traffic_mock(event, draws) ==
    (IF draws.traffic
     THEN <<Issue("traffic", "info", <<"Heavy traffic near", event["location"]>>)>>
     ELSE <<>>)
    \o (IF Weekday(event["start"]) >= 5 /\ draws.transit
        THEN <<Issue("transit", "info", <<"Weekend transit schedule">>)>>
        ELSE <<>>)

check_location_issues_mock(event, draws) ==
    (IF draws.construction
     THEN <<Issue("location", "warning", <<"Construction near", event["location"]>>)>>
     ELSE <<>>)
    \o (IF draws.nearby
        THEN <<Issue("location", "info", <<"Large event nearby">>)>>
        ELSE <<>>)

\* event['start'] raises KeyError in _check_weather_mock when the key is missing
check_for_issues_mock(event, draws) ==
    IF ~HasStart(event) THEN Raised("KeyError")
    ELSE Returned(
            check_weather_mock(event, draws)
            \o (IF ~Falsy(Get(event, "location")) THEN check_traffic_mock(event, draws) ELSE <<>>)
            \o (IF ~Falsy(Get(event, "location"))
                THEN check_location_issues_mock(event, draws) ELSE <<>>))

NL == "\n"

\* s.split('\n')
RECURSIVE SplitLines(_)
SplitLines(t) ==
    IF NL \notin Range(t) THEN <<t>>
    ELSE LET i == CHOOSE j \in DOMAIN t : t[j] = NL /\ \A k \in 1 .. (j - 1) : t[k] # NL
         IN  <<SubSeq(t, 1, i - 1)>> \o SplitLines(SubSeq(t, i + 1, Len(t)))

\* strip() of a text or a line: spaces and newlines
RECURSIVE StripText(_)
StripText(t) ==
    IF t # <<>> /\ Head(t) \in {" ", NL} THEN StripText(Tail(t))
    ELSE IF t # <<>> /\ t[Len(t)] \in {" ", NL} THEN StripText(SubSeq(t, 1, Len(t) - 1))
    ELSE t

\* line.lstrip('0123456789.-) ')
EnumerationMarkers == Digits09 \cup {".", "-", ")", " "}
RECURSIVE LStripMarkers(_)
LStripMarkers(line) ==
    IF line # <<>> /\ Head(line) \in EnumerationMarkers THEN LStripMarkers(Tail(line)) ELSE line

\* needle in text
Contains(text, needle) ==
    \E i \in 0 .. (Len(text) - Len(needle)) : SubSeq(text, i + 1, i + Len(needle)) = needle

Sentinel ==
    <<"n", "o", " ", "s", "i", "g", "n", "i", "f", "i", "c", "a", "n", "t", " ",
      "c", "o", "n", "c", "e", "r", "n", "s">>

\* [line.strip() for line in result_text.strip().split('\n') if line.strip()]
ResponseLines(text) ==
    LET raw == SplitLines(StripText(text))
    IN  SelectSeq([i \in DOMAIN raw |-> StripText(raw[i])], LAMBDA l : l # <<>>)

FirstThree(lines) == SubSeq(lines, 1, IF Len(lines) < 3 THEN Len(lines) ELSE 3)

\* the issue record built from one response line
ForecastIssue(line, event) ==
    [type |-> "ai_forecast", severity |-> "info",
     message |-> SubSeq(line, 1, IF Len(line) < 100 THEN Len(line) ELSE 100),
     details |-> <<IF "transport_mode" \in DOMAIN event THEN event["transport_mode"] ELSE "unknown",
                   IF Falsy(Get(event, "arrival_time")) THEN "N/A" ELSE event["arrival_time"],
                   IF Falsy(Get(event, "departure_time")) THEN "N/A" ELSE event["departure_time"]>>]

Mut_ParseServiceText(text, event) ==
    IF StripText(text) # <<>> /\ ~Contains(LowerText(text), Sentinel)
    THEN LET stripped == [i \in DOMAIN ResponseLines(text) |->
                             LStripMarkers(ResponseLines(text)[i])]
             kept == SelectSeq(stripped, LAMBDA l : l # <<>> /\ Len(l) > 10)
         IN  [i \in DOMAIN kept |-> ForecastIssue(kept[i], event)]
    ELSE <<>>
\* the parse of the response text into issue records
ParseServiceText(text, event) ==
    IF StripText(text) # <<>> /\ ~Contains(LowerText(text), Sentinel)
    THEN LET stripped == [i \in DOMAIN FirstThree(ResponseLines(text)) |->
                             LStripMarkers(FirstThree(ResponseLines(text))[i])]
             kept == SelectSeq(stripped, LAMBDA l : l # <<>> /\ Len(l) > 10)
         IN  [i \in DOMAIN kept |-> ForecastIssue(kept[i], event)]
    ELSE <<>>

\* _check_for_issues_api: what it returns or raises, and whether the service was invoked.
\* svc is what the service does when invoked: it fails, or it answers with a text.
check_for_issues_api(event, svc) ==
    IF ~HasStart(event) THEN [raised |-> TRUE, value |-> "KeyError", invoked |-> FALSE]
    ELSE IF Falsy(Get(event, "location")) THEN [raised |-> FALSE, value |-> <<>>, invoked |-> FALSE]
    ELSE IF svc.kind = "fail" THEN [raised |-> FALSE, value |-> <<>>, invoked |-> TRUE]
    ELSE [raised |-> FALSE, value |-> ParseServiceText(svc.text, event), invoked |-> TRUE]

Mut_Stored(cache, key, outcome) == cache
Mut_Stored_nonempty(cache, key, outcome) ==
    IF outcome.raised \/ outcome.value = <<>> THEN cache ELSE (key :> outcome.value) @@ cache
\* the outcome of a computation stored under its key (an exception stores nothing)
Stored(cache, key, outcome) ==
    IF outcome.raised THEN cache ELSE (key :> outcome.value) @@ cache

Mut_check_for_issues(sc, event, draws, svc) ==
    LET key == cache_key(event)
    IN  IF sc.use_mock
        THEN IF key \in DOMAIN sc.cache
             THEN [ret |-> Returned(sc.cache[key]), cache |-> sc.cache, invoked |-> FALSE]
             ELSE LET m == check_for_issues_mock(event, draws)
                  IN  [ret |-> m, cache |-> Stored(sc.cache, key, m), invoked |-> FALSE]
        ELSE LET a == check_for_issues_api(event, svc)
                 m == check_for_issues_mock(event, draws)
             IN  IF svc.kind = "run_error" \/ a.raised
                 THEN [ret |-> m, cache |-> Stored(sc.cache, key, m), invoked |-> FALSE]
                 ELSE [ret |-> Returned(a.value), cache |-> Stored(sc.cache, key, a),
                       invoked |-> a.invoked]
\* check_for_issues on the scraper sc: the result, the new _cache, and whether the
\* external service was invoked. svc.kind = "run_error" is asyncio.run itself failing.
check_for_issues(sc, event, draws, svc) ==
    LET key == cache_key(event)
    IN  IF key \in DOMAIN sc.cache
        THEN [ret |-> Returned(sc.cache[key]), cache |-> sc.cache, invoked |-> FALSE]
        ELSE IF sc.use_mock
        THEN LET m == check_for_issues_mock(event, draws)
             IN  [ret |-> m, cache |-> Stored(sc.cache, key, m), invoked |-> FALSE]
        ELSE LET a == check_for_issues_api(event, svc)
                 m == check_for_issues_mock(event, draws)
             IN  IF svc.kind = "run_error" \/ a.raised
                 THEN [ret |-> m, cache |-> Stored(sc.cache, key, m), invoked |-> FALSE]
                 ELSE [ret |-> Returned(a.value), cache |-> Stored(sc.cache, key, a),
                       invoked |-> a.invoked]

-----------------------------------------------------------------------------
(* Inputs of the WebScraper *)

TextNoConcerns ==
    <<"N", "o", " ", "s", "i", "g", "n", "i", "f", "i", "c", "a", "n", "t", " ", "c", "o",
      "n", "c", "e", "r", "n", "s">>
TextTwoAlerts ==
    <<"1", ".", " ", "H", "e", "a", "v", "y", " ", "r", "a", "i", "n", " ", "a", "t", " ",
      "9", "\n", "2", ")", " ", "R", "o", "a", "d", " ", "c", "l", "o", "s", "e", "d", " ",
      "d", "o", "w", "n", "t", "o", "w", "n">>
TextFourAlerts ==
    <<"-", " ", "T", "r", "a", "i", "n", " ", "s", "t", "r", "i", "k", "e", " ", "S", "u",
      "n", "d", "a", "y", "\n", "-", " ", "H", "e", "a", "v", "y", " ", "r", "a", "i", "n",
      " ", "a", "t", " ", "9", "\n", "-", " ", "R", "o", "a", "d", " ", "c", "l", "o", "s",
      "e", "d", " ", "d", "o", "w", "n", "t", "o", "w", "n", "\n", "-", " ", "S", "t", "a",
      "d", "i", "u", "m", " ", "g", "a", "m", "e", " ", "a", "t", " ", "8">>
TextShortLines ==
    <<"1", ".", " ", "o", "k", "\n", "\n", " ", " ", "2", ".", " ", "P", "a", "r", "k",
      "i", "n", "g", " ", "l", "o", "t", " ", "c", "l", "o", "s", "e", "d", " ", " ", "\n",
      "1", "0", " ", "m", "i", "n", "u", "t", "e", "s">>
TextWithSentinel ==
    <<"H", "e", "a", "v", "y", " ", "r", "a", "i", "n", " ", "a", "t", " ", "9", "\n", "O",
      "t", "h", "e", "r", "w", "i", "s", "e", " ", "n", "o", " ", "s", "i", "g", "n", "i",
      "f", "i", "c", "a", "n", "t", " ", "c", "o", "n", "c", "e", "r", "n", "s">>

ServiceOutcomes ==
    {[kind |-> "fail"], [kind |-> "run_error"]}
    \cup {[kind |-> "text", text |-> t] :
            t \in {TextNoConcerns, TextTwoAlerts, TextFourAlerts, TextShortLines, TextWithSentinel}}

Draws == [weather : BOOLEAN, traffic : BOOLEAN, transit : BOOLEAN,
          construction : BOOLEAN, nearby : BOOLEAN]

\* a weekday within the week, with a time of day; a Saturday more than 7 days away
NearStart == AddDays(0, 1) + 1
FarStart == AddDays(0, 12)

Dict(name, extra) == [k \in {"name"} |-> name] @@ extra

ScraperEvents ==
    {Dict("A", [k \in {"start", "location"} |-> IF k = "start" THEN NearStart ELSE "Haifa"]),
     Dict("B", [k \in {"start", "location"} |-> IF k = "start" THEN NearStart ELSE "Haifa"]),
     Dict("A", [k \in {"start"} |-> NearStart]),
     Dict("A", [k \in {"start", "location"} |-> IF k = "start" THEN NearStart ELSE ""]),
     Dict("A", [k \in {"location"} |-> "Haifa"]),
     Dict("A", [k \in {"start", "location"} |-> IF k = "start" THEN FarStart ELSE "Haifa"])}

\* WebScraper.__init__: mock mode without an API key, the cache empty
InitScraper ==
    /\ now \in 0 .. (TicksPerDay - 1)
    /\ demo_mode = TRUE
    /\ simulated_date = Today
    /\ AppIdle
    /\ scraper \in [use_mock : BOOLEAN, cache : {<<>>}]
    /\ served = <<>>
    /\ firstRet = <<>>
    /\ firstBy = <<>>
    /\ failed = {}
    /\ call = NoCall
    /\ ret = NoCall

CountOf(f, k) == IF k \in DOMAIN f THEN f[k] ELSE 0

\* The service's behaviour matters only to a call that reaches asyncio.run, and the
\* draws only to a call that runs the mock: other calls take one fixed value each.
NoService == [kind |-> "fail"]
NoDraws == [weather |-> FALSE, traffic |-> FALSE, transit |-> FALSE,
            construction |-> FALSE, nearby |-> FALSE]
ServiceConsulted(sc, event) == cache_key(event) \notin DOMAIN sc.cache /\ ~sc.use_mock
MockConsulted(sc, event, svc) ==
    /\ cache_key(event) \notin DOMAIN sc.cache
    /\ HasStart(event)
    /\ sc.use_mock \/ svc.kind = "run_error"

\* one call of check_for_issues for an event of Events, with the random draws and
\* the service's behaviour
CheckForIssuesOf(Events) ==
    /\ Idle
    /\ \A k \in DOMAIN served : served[k] < MaxServiceCalls
    /\ \E event \in Events :
       \E svc \in (IF ServiceConsulted(scraper, event) THEN ServiceOutcomes ELSE {NoService}) :
       \E draws \in (IF MockConsulted(scraper, event, svc) THEN Draws ELSE {NoDraws}) :
            LET out == check_for_issues(scraper, event, draws, svc)
                key == cache_key(event)
            IN  /\ scraper' = [scraper EXCEPT !.cache = out.cache]
                /\ served' = IF out.invoked
                             THEN (key :> (CountOf(served, key) + 1)) @@ served
                             ELSE served
                /\ firstRet' = IF ~out.ret.raised /\ key \notin DOMAIN firstRet
                               THEN (key :> out.ret.value) @@ firstRet
                               ELSE firstRet
                /\ firstBy' = IF ~out.ret.raised /\ key \notin DOMAIN firstBy
                              THEN (key :> event["name"]) @@ firstBy
                              ELSE firstBy
                /\ failed' = IF /\ ServiceConsulted(scraper, event) /\ HasStart(event)
                                /\ \/ svc.kind = "fail" /\ out.invoked
                                   \/ svc.kind = "run_error"
                             THEN failed \cup {key}
                             ELSE failed
                /\ call' = [op |-> "check_for_issues", event |-> event,
                            hit |-> key \in DOMAIN scraper.cache,
                            svc |-> svc, invoked |-> out.invoked, rain |-> draws.weather,
                            heuristic |->
                                IF MockConsulted(scraper, event, svc)
                                THEN [ran |-> TRUE,
                                      out |-> check_for_issues_mock(event, draws)]
                                ELSE [ran |-> FALSE, out |-> Returned(<<>>)]]
                /\ ret' = out.ret
                /\ UNCHANGED <<clockVars, appVars>>

SC_CheckForIssues == CheckForIssuesOf(ScraperEvents)

SC_Return ==
    /\ ~Idle
    /\ call' = NoCall /\ ret' = NoCall
    /\ UNCHANGED <<clockVars, appVars, scraperVars>>

NextScraper ==
    \/ SC_CheckForIssues
    \/ SC_Return

SpecScraper == InitScraper /\ [][NextScraper]_vars

\* C2: on one WebScraper, every call that returns gives the list the first call
\* with the same key returned, and the external service is invoked at most once
\* per key.
C2_SameKeySameListOneServiceCall ==
    /\ (call.op = "check_for_issues" /\ ~ret.raised) =>
            ret.value = firstRet[cache_key(call.event)]
    /\ \A k \in DOMAIN served : served[k] <= 1

\* C2 witness: a repeated call in external-service mode was answered from the
\* cache with a non-empty list, the service having been invoked once for the key.
C2_Witness ==
    /\ call.op = "check_for_issues"
    /\ call.hit
    /\ ~scraper.use_mock
    /\ ~ret.raised /\ ret.value # <<>>
    /\ CountOf(served, cache_key(call.event)) = 1

\* C21: a check_for_issues call whose key was first answered for an event of
\* another name returns that first list, and the external service is not invoked
\* for it: the call leaves the cache as it is.
C21_NameIsNotInTheKey ==
    [][(/\ call'.op = "check_for_issues"
        /\ cache_key(call'.event) \in DOMAIN firstBy
        /\ firstBy[cache_key(call'.event)] # call'.event["name"])
       => /\ ret' = Returned(firstRet[cache_key(call'.event)])
          /\ ~call'.invoked
          /\ served' = served
          /\ scraper' = scraper]_vars

\* C21 witness: in external-service mode a call for event B was answered, with a
\* non-empty list, from the entry the service had produced for event A.
C21_Witness ==
    /\ call.op = "check_for_issues"
    /\ call.event["name"] = "B"
    /\ ~scraper.use_mock
    /\ firstBy[cache_key(call.event)] = "A"
    /\ ~ret.raised /\ ret.value # <<>>
    /\ CountOf(served, cache_key(call.event)) = 1

\* the call reached the external service and the service failed: generate_content
\* raised, or asyncio.run itself did
ServiceFailed ==
    /\ call.op = "check_for_issues"
    /\ ~scraper.use_mock /\ ~call.hit
    /\ HasStart(call.event)
    /\ \/ call.svc.kind = "fail" /\ call.invoked
       \/ call.svc.kind = "run_error"

\* C11: in external-service mode, a check_for_issues call whose service call fails
\* does not raise, runs the heuristic strategy and returns the list the heuristic
\* strategy produces for the same event.
C11_ServiceFailureFallsBackToHeuristic ==
    ServiceFailed =>
        /\ ~ret.raised
        /\ call.heuristic.ran
        /\ ret = call.heuristic.out

\* C29: in external-service mode, the result of a check whose service call failed
\* is stored under its key; every later call with that key returns the stored list
\* and the service is not called again for the key.
C29_FailedResultIsCached ==
    /\ ServiceFailed =>
            /\ ~ret.raised
            /\ cache_key(call.event) \in DOMAIN scraper.cache
            /\ scraper.cache[cache_key(call.event)] = ret.value
    /\ (call.op = "check_for_issues" /\ call.hit /\ cache_key(call.event) \in failed) =>
            /\ ret = Returned(firstRet[cache_key(call.event)])
            /\ ~call.invoked
    /\ \A k \in failed : CountOf(served, k) <= 1

\* C29 witness: a call with the key of an earlier check, whose call to the service
\* had failed, was answered from the cache.
C29_Witness ==
    /\ call.op = "check_for_issues"
    /\ call.hit
    /\ ~scraper.use_mock
    /\ cache_key(call.event) \in failed
    /\ CountOf(served, cache_key(call.event)) = 1
    /\ ret = Returned(<<>>)

\* C19: in heuristic mode check_for_issues never raises, whatever the event
\* mapping: start absent, location absent or empty.
C19_HeuristicNeverRaises ==
    (call.op = "check_for_issues" /\ scraper.use_mock) => ~ret.raised

\* the text the external service answered with, when the call got one
AnsweredText == call.svc.text
Answered ==
    /\ call.op = "check_for_issues"
    /\ call.invoked /\ call.svc.kind = "text"

\* line[:100]
Truncated(line) == SubSeq(line, 1, IF Len(line) < 100 THEN Len(line) ELSE 100)

\* C20: in external-service mode the issue list has at most 3 records, each built
\* from one response line with its leading enumeration markers stripped and longer
\* than 10 characters after that; a response containing the sentinel gives the
\* empty list.
C20_AtMostThreeStrippedLines ==
    Answered =>
        /\ ~ret.raised
        /\ Len(ret.value) <= 3
        /\ \A i \in DOMAIN ret.value :
              \E j \in DOMAIN ResponseLines(AnsweredText) :
                  LET rest == LStripMarkers(ResponseLines(AnsweredText)[j])
                  IN  /\ Len(rest) > 10
                      /\ rest # <<>> /\ Head(rest) \notin EnumerationMarkers
                      /\ ret.value[i].message = Truncated(rest)
                      /\ ret.value[i].type = "ai_forecast"
        /\ Contains(AnsweredText, TextNoConcerns) =>
              ret.value = <<>>

\* C20 witness: a response of more than three lines gave three records.
C20_Witness ==
    /\ Answered
    /\ Len(ResponseLines(AnsweredText)) > 3
    /\ Len(ret.value) = 3

\* The heuristic scraper beside the demo clock: the clock is advanced and moved
\* back while issue checks are made for an event late on day 8 and one on day 1.
LateStart == AddDays(0, 8) + (TicksPerDay - 1)
WeatherEvents ==
    {Dict("A", [k \in {"start", "location"} |-> IF k = "start" THEN LateStart ELSE "Haifa"]),
     Dict("B", [k \in {"start", "location"} |-> IF k = "start" THEN NearStart ELSE "Haifa"])}

InitWeather ==
    /\ now \in 0 .. (TicksPerDay - 1)
    /\ demo_mode = TRUE
    /\ simulated_date = Today
    /\ AppIdle
    /\ ScraperIdle
    /\ call = NoCall
    /\ ret = NoCall

W_CheckForIssues == CheckForIssuesOf(WeatherEvents)

NextWeather ==
    \/ TL_AdvanceDays
    \/ W_CheckForIssues
    \/ SC_Return

SpecWeather == InitWeather /\ [][NextWeather]_vars

\* the Clock's current date at the real time of day
ClockNow == get_current_date + (now - Today)

\* C24: the heuristic weather advisory is decided against the Clock: a computed
\* list holds the advisory exactly when the draw allows it and the event is within
\* 7 days of the Clock's current date, the simulated date in demo mode.
C24_WeatherFollowsClock ==
    (call.op = "check_for_issues" /\ scraper.use_mock /\ ~call.hit /\ ~ret.raised) =>
        ((\E i \in DOMAIN ret.value : ret.value[i].type = "weather")
            <=> (call.rain /\ DeltaDays(call.event["start"], ClockNow) <= 7))

\* C10: for an event with no location (absent or empty) check_for_issues returns
\* the empty list, in heuristic and in external-service mode, whatever the draws.
C10_NoLocationNoIssues ==
    (call.op = "check_for_issues" /\ Falsy(Get(call.event, "location")) /\ ~ret.raised) =>
        ret.value = <<>>

-----------------------------------------------------------------------------
(* The page script (app.py): calendar load, timeline controls, the Alerts tab *)

\* component.get('dtstart') is not None
HasDtstart(component) == "start" \in DOMAIN component

\* the event dict built from one VEVENT: a missing SUMMARY becomes 'Untitled Event',
\* a missing LOCATION the empty string
EventOf(component) ==
    [name |-> IF "name" \in DOMAIN component THEN component["name"] ELSE "Untitled Event",
     start |-> component["start"],
     location |-> IF "location" \in DOMAIN component THEN component["location"] ELSE ""]

\* parse_calendar_file: a file Calendar.from_ical rejects raises ValueError, and so
\* does a VEVENT without DTSTART (datetime.combine(None, time()) raises inside the
\* try); otherwise one event per VEVENT, sorted by start
parse_calendar_file(file) ==
    IF file.malformed \/ \E i \in DOMAIN file.vevents : ~HasDtstart(file.vevents[i])
    THEN Raised("ValueError")
    ELSE Returned(SortedByStart([i \in DOMAIN file.vevents |-> EventOf(file.vevents[i])]))

\* create_sample_calendar(): six VEVENTs at fixed dates, 0, 3, 6, 8, 11 and 13 days
\* after the first, each with a time of day; two of them have a LOCATION
SampleVEvent(name, days, location) ==
    [k \in {"name", "start"} |-> IF k = "name" THEN name ELSE AddDays(0, days) + 1] @@ location
NoLocation == <<>>
Location(l) == [k \in {"location"} |-> l]
create_sample_calendar ==
    [malformed |-> FALSE,
     vevents |-> <<SampleVEvent("Evening Dinner Meeting", 0, NoLocation),
                   SampleVEvent("Morning Workout Session", 3, Location("City Gym, Downtown")),
                   SampleVEvent("Project Kickoff", 6, NoLocation),
                   SampleVEvent("Lunch with Team", 8, Location("The Garden Restaurant")),
                   SampleVEvent("Tech Conference", 11, NoLocation),
                   SampleVEvent("Doctor Appointment", 13, NoLocation)>>]

\* create_israeli_calendar(): six VEVENTs at midnight, 3, 6, 9, 12, 8 and 5 days after
\* the real current date; three of them have a LOCATION
IsraeliVEvent(name, days_offset, location) ==
    [k \in {"name", "start"} |-> IF k = "name" THEN name ELSE AddDays(Today, days_offset)]
    @@ location
create_israeli_calendar ==
    [malformed |-> FALSE,
     vevents |-> <<IsraeliVEvent("Tel Aviv", 3, NoLocation),
                   IsraeliVEvent("Haifa", 6, Location("German Colony, Haifa")),
                   IsraeliVEvent("Herzliya", 9, NoLocation),
                   IsraeliVEvent("Dead Sea", 12, Location("Ein Bokek, Dead Sea")),
                   IsraeliVEvent("Jerusalem", 8, NoLocation),
                   IsraeliVEvent("Jaffa", 5, Location("Old Jaffa Port"))>>]

\* The calendar files given to parse_calendar_file: VEVENTs with and without
\* DTSTART and LOCATION, a file that is not a calendar, the two built-in calendars.
VEvents ==
    {[k \in {"name"} |-> n] @@ st @@ l :
        n \in {"A", "B"},
        st \in {<<>>} \cup {[k \in {"start"} |-> t] : t \in Ticks},
        l \in {NoLocation, Location("Haifa")}}
CalendarFiles ==
    {[malformed |-> FALSE, vevents |-> v] : v \in SeqsUpTo(VEvents, MaxEvents)}
    \cup {[malformed |-> TRUE, vevents |-> <<>>]}

InitCalendar ==
    /\ now \in 0 .. (TicksPerDay - 1)
    /\ demo_mode = TRUE
    /\ simulated_date = Today
    /\ AppIdle
    /\ ScraperIdle
    /\ call = NoCall
    /\ ret = NoCall

CAL_ParseFile ==
    /\ Idle
    /\ \E file \in CalendarFiles :
            /\ call' = [op |-> "parse_calendar_file", file |-> file, builtin |-> "no"]
            /\ ret' = parse_calendar_file(file)
    /\ UNCHANGED <<clockVars, appVars, scraperVars>>

\* parse_calendar_file(create_sample_calendar()) and
\* parse_calendar_file(create_israeli_calendar())
CAL_ParseBuiltin ==
    /\ Idle
    /\ \E b \in {"sample", "israeli"} :
            LET file == IF b = "sample" THEN create_sample_calendar
                        ELSE create_israeli_calendar
            IN  /\ call' = [op |-> "parse_calendar_file", file |-> file, builtin |-> b]
                /\ ret' = parse_calendar_file(file)
    /\ UNCHANGED <<clockVars, appVars, scraperVars>>

CAL_Return ==
    /\ ~Idle
    /\ call' = NoCall /\ ret' = NoCall
    /\ UNCHANGED <<clockVars, appVars, scraperVars>>

NextCalendar ==
    \/ CAL_ParseFile
    \/ CAL_ParseBuiltin
    \/ CAL_Return

SpecCalendar == InitCalendar /\ [][NextCalendar]_vars

\* the number of VEVENTs of the parsed file that have a DTSTART
Started == Cardinality({i \in DOMAIN call.file.vevents : HasDtstart(call.file.vevents[i])})

\* C22: for a file that is a calendar, parse_calendar_file returns one record per
\* VEVENT, the events that have a start first in ascending order of start, the
\* events without a start after them.
C22_StartlessEventsSortedLast ==
    (call.op = "parse_calendar_file" /\ ~call.file.malformed) =>
        /\ ~ret.raised
        /\ Len(ret.value) = Len(call.file.vevents)
        /\ \A i, j \in 1 .. Started : i < j => ret.value[i].start <= ret.value[j].start
        /\ \A i \in (Started + 1) .. Len(ret.value) : ~HasDtstart(ret.value[i])

\* C26: parsing the built-in calendars gives 4 events for the sample calendar and
\* 3 for the Israeli calendar, each list with at least one event without location.
C26_BuiltinCalendarCounts ==
    /\ (call.op = "parse_calendar_file" /\ call.builtin = "sample") =>
            /\ ~ret.raised /\ Len(ret.value) = 4
            /\ \E i \in DOMAIN ret.value : Falsy(ret.value[i].location)
    /\ (call.op = "parse_calendar_file" /\ call.builtin = "israeli") =>
            /\ ~ret.raised /\ Len(ret.value) = 3
            /\ \E i \in DOMAIN ret.value : Falsy(ret.value[i].location)

\* event_id = f"{event['name']}_{event['start']}", as its parts
event_id(event) == <<event.name, event.start>>

Mut_alert_key(event, days_before) == event_id(event)
\* alert_key = f"{event_id}_{days_before}days", as its parts
alert_key(event, days_before) == event_id(event) \o <<days_before>>

Mut_alert_days == <<7>>
\* alert_days = [7, 1]
alert_days == <<7, 1>>

\* The alerts the Alerts tab surfaces in one run of the script: nothing when the
\* run stops at the permission gate of the first tab or no calendar is loaded.
AlertsTab ==
    IF ~permission \/ events = <<>> THEN {}
    ELSE UNION {{<<e, alert_days[i]>> :
                    e \in {x \in Range(get_events_needing_alert(events, alert_days[i])) :
                              alert_key(x, alert_days[i]) \notin alerts_checked}} :
                i \in DOMAIN alert_days}

\* one run of the script, seen from the Alerts tab
Rendered == [date |-> get_current_date, alerts |-> AlertsTab]

\* {**event, **details}
Merged(event, details) == details @@ event

\* st.session_state.event_details.get(event_id, {})
DetailsOf(ed, id) == IF id \in DOMAIN ed THEN ed[id] ELSE <<>>

Mut_events_needing_details(evs, current_date) ==
    SelectSeq(evs, LAMBDA e : e.start >= current_date /\ DeltaDays(e.start, current_date) < 7)
\* the events the Event Details tab asks about: starting today or later, within 7 days
events_needing_details(evs, current_date) ==
    SelectSeq(evs, LAMBDA e : e.start >= current_date /\ DeltaDays(e.start, current_date) <= 7)

\* the Event Details tab creates an empty record for each event it lists
Tab2Records(ed, evs, current_date) ==
    LET listed == {event_id(e) : e \in Range(events_needing_details(evs, current_date))}
    IN  [id \in DOMAIN ed \cup listed |-> DetailsOf(ed, id)]

\* The texts the detail fields can hold, as str values and as their characters.
TextTable ==
    <<[str |-> "Haifa", chars |-> <<"H", "a", "i", "f", "a">>],
      [str |-> "9:30", chars |-> <<"9", ":", "3", "0">>],
      [str |-> "a:bc", chars |-> <<"a", ":", "b", "c">>]>>
StrOf(chars) == (CHOOSE r \in Range(TextTable) : r.chars = chars).str
CharsOf(str) == (CHOOSE r \in Range(TextTable) : r.str = str).chars

\* what the user types into the questions of the Event Details tab: the location
\* of event B, and for its arrival time "930", "abc" or "25:00"
Typed ==
    {[name |-> "B", field |-> "location", value |-> <<"H", "a", "i", "f", "a">>],
     [name |-> "B", field |-> "arrival_time", value |-> <<"9", "3", "0">>],
     [name |-> "B", field |-> "arrival_time", value |-> <<"a", "b", "c">>],
     [name |-> "B", field |-> "arrival_time", value |-> <<"2", "5", ":", "0", "0">>]}
\* what the user types for event A, whose calendar entry has a location
TypedLocated ==
    {[name |-> "A", field |-> "location", value |-> <<"H", "a", "i", "f", "a">>],
     [name |-> "A", field |-> "arrival_time", value |-> <<"9", "3", "0">>],
     [name |-> "A", field |-> "departure_time", value |-> <<"9", "3", "0">>]}
DetailInputs(typed, event, field) ==
    {t.value : t \in {u \in typed : u.name = event.name /\ u.field = field}}

\* the value and != current_value branch of the Event Details tab for one field
\* of one event: the parsed value is stored, a ValueError is shown as st.error
EnteredDetail(ed, event, field, value) ==
    LET id == event_id(event)
        parsed == parse_response(value, field)
    IN  IF parsed.raised THEN ed
        ELSE (id :> ((field :> StrOf(parsed.value)) @@ DetailsOf(ed, id))) @@ ed

\* the sidebar's API Key field: a key in the field replaces the scraper on every
\* run, a cleared field puts the environment's scraper back once
ScraperForRun(sc, field_key, session_key) ==
    IF field_key # ENV_API_KEY THEN [use_mock |-> FALSE, cache |-> <<>>]
    ELSE IF session_key # ENV_API_KEY THEN [use_mock |-> TRUE, cache |-> <<>>]
    ELSE sc

\* cache_key of the Alerts tab:
\* f"{event_id}_{location}_{start:%Y%m%d}_{transport_mode or 'na'}", as its parts
issues_cache_key(event, details) ==
    <<event_id(event), Get(details, "location"), DayOf(event.start),
      IF "transport_mode" \in DOMAIN details THEN details["transport_mode"] ELSE "na">>

\* the alerts of one run in the order the Alerts tab goes through them
RECURSIVE AlertsFrom(_, _, _)
AlertsFrom(alerts, evs, k) ==
    IF k > Len(alert_days) THEN <<>>
    ELSE SelectSeq([i \in DOMAIN evs |-> <<evs[i], alert_days[k]>>], LAMBDA a : a \in alerts)
         \o AlertsFrom(alerts, evs, k + 1)
AlertSeq(alerts, evs) == AlertsFrom(alerts, evs, 1)

\* what one alert shows when the details hold no location: the warning
NoLocationShown == [located |-> FALSE, issues |-> <<>>, key |-> <<>>]

\* The Alerts tab for one alert: the warning when the details hold no location,
\* else the issue list looked up in issues_cache, or computed by check_for_issues
\* and stored. Each stored list is kept with the scraper's cache key of the event
\* it was computed for. acc holds issues_cache, the scraper and what is displayed.
IssueStep(a, ed, acc, e) ==
    LET details == DetailsOf(ed, event_id(a[1]))
        key == issues_cache_key(a[1], details)
        event_with_details == Merged(a[1], details)
        out == check_for_issues(acc.scraper, event_with_details, e.draws, e.svc)
        entry == [issues |-> out.ret.value, key |-> cache_key(event_with_details)]
    IN  IF Falsy(Get(details, "location"))
        THEN [acc EXCEPT !.displayed = (a :> NoLocationShown) @@ @]
        ELSE IF key \notin DOMAIN acc.issues_cache
        THEN [issues_cache |-> (key :> entry) @@ acc.issues_cache,
              scraper |-> [acc.scraper EXCEPT !.cache = out.cache],
              displayed |-> (a :> [located |-> TRUE, issues |-> entry.issues, key |-> entry.key])
                            @@ acc.displayed]
        ELSE [acc EXCEPT !.displayed =
                 (a :> [located |-> TRUE, issues |-> acc.issues_cache[key].issues,
                        key |-> acc.issues_cache[key].key]) @@ @]

\* The Alerts tab from alert i on; the outcome of each alert is bound to a name
\* so that the next alert starts from its value
RECURSIVE IssuePass(_, _, _, _, _)
IssuePass(alerts, i, ed, acc, env) ==
    IF i > Len(alerts) THEN acc
    ELSE CHOOSE r \in {IssuePass(alerts, i + 1, ed, next, env) :
                           next \in {IssueStep(alerts[i], ed, acc, env[i])}} : TRUE

\* The random draws and the service's answer of each issue check of one run; they
\* matter only to a run that computes a list.
AppDraws ==
    {NoDraws, [weather |-> FALSE, traffic |-> TRUE, transit |-> FALSE,
               construction |-> FALSE, nearby |-> FALSE]}
AppServices == {[kind |-> "text", text |-> TextNoConcerns]}
Computes(alerts, ed, ic) ==
    \E i \in DOMAIN alerts :
        LET details == DetailsOf(ed, event_id(alerts[i][1]))
        IN  /\ ~Falsy(Get(details, "location"))
            /\ issues_cache_key(alerts[i][1], details) \notin DOMAIN ic
Environments(alerts, ed, ic) ==
    IF Computes(alerts, ed, ic)
    THEN [DOMAIN alerts -> [draws : AppDraws, svc : AppServices]]
    ELSE {[i \in DOMAIN alerts |-> [draws |-> NoDraws, svc |-> NoService]]}

\* One run of the page script after a widget's handler has set the clock, events,
\* alerts_checked, permission and api_key: the sidebar's scraper, the records of
\* the Event Details tab (ed is event_details with what that tab stored in this
\* run), the Alerts tab. The scraper, the records and the alerts of the run are
\* each computed once and then used by the tabs.
RunScript(ed) ==
    /\ shown' = Rendered'
    /\ \E sc \in {ScraperForRun(scraper, api_key', api_key)},
          records \in {IF permission' /\ events' # <<>>
                       THEN Tab2Records(ed, events', shown'.date) ELSE ed},
          alerts \in {AlertSeq(shown'.alerts, events')} :
          \E env \in Environments(alerts, records, issues_cache) :
              \E pass \in {IssuePass(alerts, 1, records,
                                    [issues_cache |-> issues_cache, scraper |-> sc,
                                     displayed |-> <<>>], env)} :
                  /\ event_details' = records
                  /\ issues_cache' = pass.issues_cache
                  /\ scraper' = pass.scraper
                  /\ displayed' = pass.displayed

EvA == [name |-> "A", start |-> AddDays(0, 7) + 1, location |-> "Haifa"]
EvB == [name |-> "B", start |-> AddDays(0, 8), location |-> ""]
EvC == [name |-> "A", start |-> AddDays(0, 1), location |-> ""]

WellFormed(vevents) == [malformed |-> FALSE, vevents |-> vevents]
Uploads ==
    {WellFormed(<<EvB, EvA>>), [malformed |-> TRUE, vevents |-> <<>>],
     WellFormed(<<EvB, [name |-> "A", location |-> "Haifa"]>>)}

\* the module-level session state initialisation and the first run of the script
Init ==
    /\ now \in 0 .. (TicksPerDay - 1)
    /\ demo_mode = TRUE
    /\ simulated_date = Today
    /\ events = <<>>
    /\ alerts_checked = {}
    /\ permission = FALSE
    /\ event_details = <<>>
    /\ issues_cache = <<>>
    /\ api_key = ENV_API_KEY
    /\ displayed = <<>>
    /\ shown = Rendered
    /\ reviewed = {}
    /\ everShown = {}
    /\ jumped = FALSE
    /\ alertLog = {}
    /\ ScraperIdle
    /\ call = NoCall
    /\ ret = NoCall

\* what no step of the page script changes in this model
AppFrame == UNCHANGED <<alertLog, served, firstRet, firstBy, failed, ret>>

\* "Grant permission now"
GrantPermission ==
    /\ ~permission
    /\ permission' = TRUE
    /\ call' = NoCall
    /\ UNCHANGED <<clockVars, events, alerts_checked, reviewed, api_key>>
    /\ RunScript(event_details)

\* the Demo Mode toggle
ToggleDemoMode ==
    /\ set_demo_mode(~demo_mode)
    /\ call' = NoCall
    /\ UNCHANGED <<now, events, alerts_checked, permission, reviewed, api_key>>
    /\ RunScript(event_details)

\* "+1 Day"
PlusOneDay ==
    /\ demo_mode
    /\ DayOf(simulated_date) + 1 <= AppMaxDay
    /\ advance_days(1)
    /\ call' = NoCall
    /\ UNCHANGED <<now, demo_mode, events, alerts_checked, permission, reviewed, api_key>>
    /\ RunScript(event_details)

\* "+7 Days"
PlusSevenDays ==
    /\ demo_mode
    /\ DayOf(simulated_date) + 7 <= AppMaxDay
    /\ advance_days(7)
    /\ call' = NoCall
    /\ UNCHANGED <<now, demo_mode, events, alerts_checked, permission, reviewed, api_key>>
    /\ RunScript(event_details)

\* "Reset to Today"
ResetToToday ==
    /\ demo_mode
    /\ reset
    /\ alerts_checked' = {}
    /\ reviewed' = {}
    /\ call' = [op |-> "Reset to Today", cleared |-> alerts_checked # {}]
    /\ UNCHANGED <<now, demo_mode, events, permission, api_key>>
    /\ RunScript(event_details)

Mut_Uploaded(file) ==
    LET parsed == parse_calendar_file(file)
    IN  [events |-> IF parsed.raised THEN <<>> ELSE parsed.value, error |-> parsed.raised]
\* the upload branch: the parsed events replace the Event Store; any exception is
\* caught and shown with st.error, the Event Store left as it was
Uploaded(file) ==
    LET parsed == parse_calendar_file(file)
    IN  [events |-> IF parsed.raised THEN events ELSE parsed.value, error |-> parsed.raised]

Mut_UploadCalendar ==
    /\ permission
    /\ \E file \in Uploads :
          /\ events' = Uploaded(file).events
          /\ call' = [op |-> "upload", file |-> file, error |-> Uploaded(file).error]
    /\ alerts_checked' = {}
    /\ UNCHANGED <<clockVars, permission, reviewed, api_key>>
    /\ RunScript(event_details)
\* a file is uploaded: the events are replaced unless the parse fails
UploadCalendar ==
    /\ permission
    /\ \E file \in Uploads :
          /\ events' = Uploaded(file).events
          /\ call' = [op |-> "upload", file |-> file, error |-> Uploaded(file).error]
    /\ UNCHANGED <<clockVars, alerts_checked, permission, reviewed, api_key>>
    /\ RunScript(event_details)

\* "Mark as Reviewed" on an alert the page shows and the rerun still reaches
MarkReviewed ==
    /\ \E a \in shown.alerts \cap AlertsTab :
          /\ alerts_checked' = alerts_checked \cup {alert_key(a[1], a[2])}
          /\ reviewed' = reviewed \cup {<<a[1].name, a[1].start, a[2]>>}
    /\ call' = NoCall
    /\ UNCHANGED <<clockVars, events, permission, api_key>>
    /\ RunScript(event_details)

\* a value of typed is entered into one of the questions of the Event Details tab
EnterDetailOf(typed) ==
    /\ permission
    /\ \E e \in Range(events_needing_details(events, get_current_date)) :
       \E q \in Range(generate_questions(Merged(e, DetailsOf(event_details, event_id(e))))) :
       \E value \in DetailInputs(typed, e, q.field) :
          /\ call' = [op |-> "detail", event |-> e,
                      error |-> parse_response(value, q.field).raised,
                      before |-> DetailsOf(event_details, event_id(e))]
          /\ UNCHANGED <<clockVars, events, alerts_checked, permission, reviewed, api_key>>
          /\ RunScript(EnteredDetail(event_details, e, q.field, value))

EnterDetail == EnterDetailOf(Typed)

\* a key is typed into the API Key field, or the field is cleared
ChangeApiKey ==
    /\ \E k \in {ENV_API_KEY, "key"} \ {api_key} : api_key' = k
    /\ call' = NoCall
    /\ UNCHANGED <<clockVars, events, alerts_checked, permission, reviewed>>
    /\ RunScript(event_details)

\* any other interaction reruns the script
Rerun ==
    /\ call' = NoCall
    /\ UNCHANGED <<clockVars, events, alerts_checked, permission, reviewed, api_key>>
    /\ RunScript(event_details)

\* the wall clock moves on; nothing reruns the script
WallClock ==
    /\ Tick
    /\ call' = NoCall
    /\ UNCHANGED <<events, alerts_checked, permission, reviewed, api_key, shown,
                   event_details, issues_cache, displayed, scraper>>

Next ==
    \/ GrantPermission /\ UNCHANGED <<everShown, jumped>> /\ AppFrame
    \/ ToggleDemoMode /\ UNCHANGED <<everShown, jumped>> /\ AppFrame
    \/ PlusOneDay /\ UNCHANGED <<everShown, jumped>> /\ AppFrame
    \/ PlusSevenDays /\ UNCHANGED <<everShown, jumped>> /\ AppFrame
    \/ ResetToToday /\ UNCHANGED <<everShown, jumped>> /\ AppFrame
    \/ UploadCalendar /\ UNCHANGED <<everShown, jumped>> /\ AppFrame
    \/ MarkReviewed /\ UNCHANGED <<everShown, jumped>> /\ AppFrame
    \/ EnterDetail /\ UNCHANGED <<everShown, jumped>> /\ AppFrame
    \/ ChangeApiKey /\ UNCHANGED <<everShown, jumped>> /\ AppFrame
    \/ Rerun /\ UNCHANGED <<everShown, jumped>> /\ AppFrame
    \/ WallClock /\ UNCHANGED <<everShown, jumped>> /\ AppFrame

Spec == Init /\ [][Next]_vars

Reviewed(e, d) == <<e.name, e.start, d>> \in reviewed

\* the page was last rendered at the current clock date, d days before event e
DueOnPage(e, d) == shown.date = T /\ Midnight(e.start) = AddDays(T, d)

\* C4: an acknowledgment of (event, 7) suppresses the 7-day alert only: whenever
\* the event is 1 day ahead of the clock date and (event, 1) is not acknowledged,
\* the page surfaces the 1-day alert; and the same with 7 and 1 exchanged.
C4_AckSuppressesItsTriggerOnly ==
    \A e \in Range(events) :
        /\ (Reviewed(e, 7) /\ ~Reviewed(e, 1) /\ DueOnPage(e, 1)) => <<e, 1>> \in shown.alerts
        /\ (Reviewed(e, 1) /\ ~Reviewed(e, 7) /\ DueOnPage(e, 7)) => <<e, 7>> \in shown.alerts

\* C4 witness: the 7-day alert of an event was acknowledged and, six days on, its
\* 1-day alert is on the page.
C4_Witness ==
    \E e \in Range(events) :
        /\ Reviewed(e, 7) /\ ~Reviewed(e, 1)
        /\ DueOnPage(e, 1)
        /\ <<e, 1>> \in shown.alerts

-----------------------------------------------------------------------------
(* A demo-mode run: a calendar is loaded, the operator advances the clock and *)
(* marks alerts as reviewed.                                                  *)

DemoCalendars == {WellFormed(<<EvA>>), WellFormed(<<EvB, EvA>>), WellFormed(<<EvA, EvC>>)}

InitAdvance ==
    /\ now \in 0 .. (TicksPerDay - 1)
    /\ demo_mode = TRUE
    /\ simulated_date = Today
    /\ \E file \in DemoCalendars : events = parse_calendar_file(file).value
    /\ alerts_checked = {}
    /\ permission = TRUE
    /\ api_key = ENV_API_KEY
    /\ shown = Rendered
    /\ event_details = Tab2Records(<<>>, events, shown.date)
    /\ issues_cache = <<>>
    /\ displayed = [a \in shown.alerts |-> NoLocationShown]
    /\ reviewed = {}
    /\ everShown = shown.alerts
    /\ jumped = FALSE
    /\ alertLog = {}
    /\ ScraperIdle
    /\ call = NoCall
    /\ ret = NoCall

ADV_PlusOneDay ==
    /\ PlusOneDay
    /\ everShown' = everShown \cup shown'.alerts
    /\ UNCHANGED jumped
    /\ AppFrame

ADV_PlusSevenDays ==
    /\ PlusSevenDays
    /\ everShown' = everShown \cup shown'.alerts
    /\ jumped' = TRUE
    /\ AppFrame

ADV_MarkReviewed ==
    /\ MarkReviewed
    /\ everShown' = everShown \cup shown'.alerts
    /\ UNCHANGED jumped
    /\ AppFrame

NextAdvance ==
    \/ ADV_PlusOneDay
    \/ ADV_PlusSevenDays
    \/ ADV_MarkReviewed

SpecAdvance == InitAdvance /\ [][NextAdvance]_vars

\* the run starts at the midnight of the wall-clock day of InitAdvance
StartsSevenAhead(e) == Midnight(e.start) >= AddDays(Midnight(Today), 7)
Passed(e) == T > Midnight(e.start)
BothSurfaced(e) == <<e, 7>> \in everShown /\ <<e, 1>> \in everShown

\* C5 as stated: for every event starting at least 7 days after the clock date of
\* the start of the run, once the +1 Day / +7 Days controls have taken the clock
\* past the event's day, its 7-day alert and its 1-day alert have each been
\* surfaced in some state of the run.
C5_BothAlertsSurfaced ==
    \A e \in Range(events) : (StartsSevenAhead(e) /\ Passed(e)) => BothSurfaced(e)

\* C5 amended: the same, along the runs that advance the clock with the +1 Day
\* control only.
C5_BothAlertsSurfacedDayByDay ==
    \A e \in Range(events) :
        (~jumped /\ StartsSevenAhead(e) /\ Passed(e)) => BothSurfaced(e)

\* C5 witness: a day-by-day run has passed an event that started 7 days ahead;
\* both of its alerts were surfaced and the 7-day one was marked as reviewed.
C5_Witness ==
    \E e \in Range(events) :
        /\ ~jumped /\ StartsSevenAhead(e) /\ Passed(e)
        /\ BothSurfaced(e)
        /\ Reviewed(e, 7)

-----------------------------------------------------------------------------
(* The page script, and reset() called on the session's clock on its own *)

NextReset ==
    \/ Next
    \/ TL_Reset

SpecReset == Init /\ [][NextReset]_vars

\* C12: every step that executes reset() leaves the stored date at the real
\* current date, with demo mode on or off, and every step of the application that
\* executes reset() (Reset to Today) leaves the acknowledgment set empty.
C12_ResetToRealDateAndClearsAcks ==
    [][/\ call'.op \in {"reset", "Reset to Today"} => simulated_date' = Midnight(now')
       /\ call'.op = "Reset to Today" => alerts_checked' = {}]_vars

\* C12 witness: Reset to Today was pressed with acknowledgments in the set; the
\* set is empty and the clock is at today.
C12_Witness ==
    /\ call.op = "Reset to Today"
    /\ call.cleared
    /\ alerts_checked = {}
    /\ simulated_date = Midnight(now)

\* C15: over the application's actions the acknowledgment set never loses an
\* element, except in the step of the explicit timeline reset, which empties it.
C15_AcksOnlyGrowUntilReset ==
    [][\/ alerts_checked \subseteq alerts_checked'
       \/ call'.op = "Reset to Today" /\ alerts_checked' = {}]_vars

\* C15 witness: a calendar was uploaded over a session that holds
\* acknowledgments, and the set still holds them.
C15_Witness ==
    /\ call.op = "upload"
    /\ alerts_checked # {}

\* C16: every issue list the Alerts tab displays for an event was computed for,
\* and stored under, the (location, date, transport_mode, arrival_time,
\* departure_time) key of the event's current details: after a detail changes,
\* the display does not use the list of the old values.
C16_DisplayFollowsDetailChange ==
    \A a \in DOMAIN displayed :
        (shown.date = T /\ displayed[a].located) =>
            displayed[a].key
                = cache_key(Merged(a[1], DetailsOf(event_details, event_id(a[1]))))

\* C17: every arrival_time and departure_time in the detail store is HH:MM with
\* hour 0-23 and minute 0-59, and an input reported as a field error leaves the
\* event's record as it was.
C17_StoredTimesAreValid ==
    /\ \A id \in DOMAIN event_details :
       \A f \in TimeFields \cap DOMAIN event_details[id] :
            IsClockTime(CharsOf(event_details[id][f]))
    /\ (call.op = "detail" /\ call.error) =>
            DetailsOf(event_details, event_id(call.event)) = call.before

\* a file parse_calendar_file cannot turn into events: not a calendar, or with a
\* VEVENT that has no DTSTART
Malformed(file) == file.malformed \/ \E i \in DOMAIN file.vevents : ~HasDtstart(file.vevents[i])

C28_MovingBackClearsAcks ==
    [][get_current_date' < get_current_date => alerts_checked' = {}]_vars

\* C30: at every clock date, each event get_events_needing_alert returns for the
\* trigger offsets 7 and 1 is among the events the Event Details tab asks about.
C30_AlertedEventsAreAskedAbout ==
    \A i \in DOMAIN alert_days :
        \A e \in Range(get_events_needing_alert(events, alert_days[i])) :
            e \in Range(events_needing_details(events, get_current_date))

\* C30 witness: the page surfaces the 7-day alert of an event that starts at a time
\* of day, 7 days and some hours after the clock date.
C30_Witness ==
    \E a \in shown.alerts :
        /\ shown.date = T
        /\ a[2] = 7
        /\ a[1].start > AddDays(T, 7)
        /\ a[1] \in Range(get_events_needing_alert(events, 7))

-----------------------------------------------------------------------------
(* A demo-mode run in which the user answers the questions about event A, the *)
(* event whose calendar entry has a location.                                 *)

LOC_EnterDetail ==
    /\ EnterDetailOf(TypedLocated)
    /\ everShown' = everShown \cup shown'.alerts
    /\ UNCHANGED jumped
    /\ AppFrame

NextLocated ==
    \/ ADV_PlusOneDay
    \/ ADV_MarkReviewed
    \/ LOC_EnterDetail

SpecLocated == InitAdvance /\ [][NextLocated]_vars

\* the user has supplied both times of the event
TimesSupplied(e) ==
    \A f \in TimeFields : ~Falsy(Get(DetailsOf(event_details, event_id(e)), f))

\* C27: once the user has supplied arrival_time and departure_time for an event
\* whose calendar entry has a location, the alert of that event (the event on a
\* trigger boundary and unacknowledged) shows the result of check_for_issues and
\* not the request for location details.
C27_CalendarLocationReachesAlerts ==
    \A a \in DOMAIN displayed :
        (shown.date = T /\ ~Falsy(a[1].location) /\ TimesSupplied(a[1])) =>
            displayed[a].located

\* What the page does instead, in every state of the run: the alert of an event
\* whose calendar entry has a location never shows an issue list.
CalendarLocationNeverReachesAlerts ==
    \A a \in DOMAIN displayed : ~Falsy(a[1].location) => ~displayed[a].located

====
